---- MODULE Spec2Model ----
(***************************************************************************)
(* Deep Mind execution tracer of openethereum (deepmind/src/lib.rs).       *)
(*                                                                         *)
(* The model follows one TransactionTracer handed out by a BlockContext.   *)
(* The tracer's fields are the variables; every Tracer method is one       *)
(* action.  The line sink (Printer::print) is observed through `out`, the  *)
(* lines printed by the last operation, each line a sequence of the        *)
(* space-separated tokens of the text the code formats, and through        *)
(* `call_events`, the EVM_RUN_CALL / EVM_END_CALL lines the tracer has     *)
(* printed so far.  A Rust panic! is process-terminating: it sets          *)
(* `panicked` and no operation follows it.                                 *)
(***************************************************************************)
EXTENDS Integers, Sequences, FiniteSets, TLC

VARIABLES
    instrumentation,             \* Context.instrumentation: Instrumentation
    printer,                     \* Context.printer: the Printer implementation
    is_enabled,                  \* BlockContext.is_enabled: bool
    is_finalize_block_enabled,   \* BlockContext.is_finalize_block_enabled: bool
    cumulative_gas_used,         \* BlockContext.cumulative_gas_used: u64
    log_index_at_block,          \* BlockContext.log_index_at_block: u64
    call_index,                  \* TransactionTracer.call_index: u64
    last_pop_call_index,         \* TransactionTracer.last_pop_call_index: Option<u64>
    call_stack,                  \* TransactionTracer.call_stack: Vec<u64>
    gas_event_call_stack,        \* TransactionTracer.gas_event_call_stack: Vec<u64>
    active_gas_left_at_failure,  \* TransactionTracer.active_gas_left_at_failure: Option<U256>
    log_in_block_index,          \* TransactionTracer.log_in_block_index: u64
    log_count,                   \* TransactionTracer.log_count: u64
    op,                          \* name of the last operation invoked
    out,                         \* lines the last operation handed to Printer::print
    call_events,                 \* <<keyword, index>> of the tracer's EVM_RUN_CALL / EVM_END_CALL lines
    panicked,                    \* a panic! has terminated the process
    started,                     \* host: Context::init has been called
    scope,                       \* host: "block", or "transaction" while a tracer of the block is live
    gas_event_befores,           \* tracer transcript: the before_call GAS_EVENT lines not yet matched
    tracer_offset,               \* tracer transcript: the block log offset the tracer was created with
    tracer_logs,                 \* tracer transcript: the tracer's ADD_LOG lines
    first_line,                  \* sink transcript: keyword of the first line of the Context
    init_lines,                  \* sink transcript: number of INIT lines of the Context
    block_log_indices,           \* sink transcript: log indices of the block's ADD_LOG lines
    log_protocol,                \* host: how far record_log_count has followed the tracers' log counts
    gas_used_emitted,            \* sink transcript: sum of the gas_used fields of the block's END_APPLY_TRX lines
    receipts_in_order            \* host: the block's receipts came with non-decreasing cumulative gas

context_vars == <<instrumentation, printer>>
block_vars == <<is_enabled, is_finalize_block_enabled, cumulative_gas_used, log_index_at_block>>
tracer_vars == <<call_index, last_pop_call_index, call_stack, gas_event_call_stack,
                 active_gas_left_at_failure, log_in_block_index, log_count>>
host_vars == <<started, scope, log_protocol, receipts_in_order>>
tracer_transcript == <<gas_event_befores, tracer_offset, tracer_logs>>
sink_transcript == <<first_line, init_lines, block_log_indices, gas_used_emitted>>
vars == <<instrumentation, printer, is_enabled, is_finalize_block_enabled,
          cumulative_gas_used, log_index_at_block,
          call_index, last_pop_call_index, call_stack, gas_event_call_stack,
          active_gas_left_at_failure, log_in_block_index, log_count,
          op, out, call_events, panicked, started, scope,
          gas_event_befores, tracer_offset, tracer_logs, first_line, init_lines,
          block_log_indices, log_protocol, gas_used_emitted, receipts_in_order>>

----------------------------------------------------------------------------
(* Bounds of the model. *)

\* start_call operations per tracer
MaxCalls == 3
\* depth of the gas-event stack
MaxGasEvents == 1
\* record_log operations per tracer
MaxLogs == 1
\* u64 arithmetic is modulo 2^64; the model keeps the wrap-around with a scaled-down modulus
U64Modulus == 16

----------------------------------------------------------------------------
(* Option<T>: None is the empty sequence, Some(v) the one-element sequence. *)

None == <<>>
Some(v) == <<v>>
IsSome(o) == o # <<>>
Unwrap(o) == o[1]

----------------------------------------------------------------------------
(* Input domains of the hooks. *)

\* gas amounts (U256 / usize arguments that fit a u64)
Gas == {0, 1}
\* addresses (H160) by numeric value; 0 is the zero address
Addresses == {0, 1}
\* hashes (H256) by numeric value; 0 is the zero hash
Hashes == {0, 1}
\* byte strings
ByteStrings == {<<>>, <<171>>}

----------------------------------------------------------------------------
(* Protocol formatters. *)

HexDigits == <<"0", "1", "2", "3", "4", "5", "6", "7",
               "8", "9", "a", "b", "c", "d", "e", "f">>
HexDigit(d) == HexDigits[d + 1]

RECURSIVE ToHex(_)
\* {:x} of an unsigned integer: lowercase hex, no prefix, no leading zeros
ToHex(n) == IF n < 16 THEN HexDigit(n) ELSE ToHex(n \div 16) \o HexDigit(n % 16)

RECURSIVE HexLen(_)
\* number of hex digits of n
HexLen(n) == IF n < 16 THEN 1 ELSE 1 + HexLen(n \div 16)

Zeros2 == "00"
Zeros4 == Zeros2 \o Zeros2
Zeros8 == Zeros4 \o Zeros4
Zeros16 == Zeros8 \o Zeros8
Zeros32 == Zeros16 \o Zeros16

\* a string of k zeros, k < 64
Zeros(k) ==
    (IF k % 64 >= 32 THEN Zeros32 ELSE "") \o (IF k % 32 >= 16 THEN Zeros16 ELSE "")
    \o (IF k % 16 >= 8 THEN Zeros8 ELSE "") \o (IF k % 8 >= 4 THEN Zeros4 ELSE "")
    \o (IF k % 4 >= 2 THEN Zeros2 ELSE "") \o (IF k % 2 >= 1 THEN "0" ELSE "")

\* lowercase hex of the `digits / 2` big-endian bytes of a fixed-size hash:
\* {:02x} of every byte, that is the value left-padded with zeros
PadHex(n, digits) == Zeros(digits - HexLen(n)) \o ToHex(n)

RECURSIVE BytesToHex(_)
\* rustc_hex to_hex of a byte slice: two lowercase hex digits per byte
BytesToHex(bytes) ==
    IF bytes = <<>> THEN ""
    ELSE PadHex(Head(bytes), 2) \o BytesToHex(Tail(bytes))

\* Display of a u64
Dec(n) == ToString(n)

\* impl LowerHex for Address
Address(a) == IF a = 0 THEN "." ELSE PadHex(a, 40)

\* impl LowerHex for Hex
Hex(bytes) == IF Len(bytes) = 0 THEN "." ELSE BytesToHex(bytes)

\* impl LowerHex for H256
H256(h) == PadHex(h, 64)

\* H256::to_hex: as_bytes().to_hex(), two hex digits for each of the 32 bytes
H256_to_hex(h) == PadHex(h, 64)

\* impl LowerHex for U256
U256(v) == IF v = 0 THEN "." ELSE ToHex(v)

----------------------------------------------------------------------------
(* Reason taxonomies. *)

BalanceChangeReason ==
    {"Unknown", "RewardMineUncle", "RewardMineBlock", "DaoRefundContract",
     "DaoAdjustBalance", "Transfer", "GenesisBalance", "GasBuy",
     "RewardTransactionFee", "GasRefund", "TouchAccount", "SuicideRefund",
     "SuicideWithdraw", "CallBalanceOverride", "Ignored"}

\* the match arms of Display for BalanceChangeReason that panic
BalanceReasonPanics(reason) == reason \in {"CallBalanceOverride", "Ignored"}

\* impl Display for BalanceChangeReason, on the arms that yield a token
BalanceReasonToken(reason) ==
    CASE reason = "Unknown" -> "unknown"
      [] reason = "RewardMineUncle" -> "reward_mine_uncle"
      [] reason = "RewardMineBlock" -> "reward_mine_block"
      [] reason = "DaoRefundContract" -> "dao_refund_contract"
      [] reason = "DaoAdjustBalance" -> "dao_adjust_balance"
      [] reason = "Transfer" -> "transfer"
      [] reason = "GenesisBalance" -> "genesis_balance"
      [] reason = "GasBuy" -> "gas_buy"
      [] reason = "RewardTransactionFee" -> "reward_transaction_fee"
      [] reason = "GasRefund" -> "gas_refund"
      [] reason = "TouchAccount" -> "touch_account"
      [] reason = "SuicideRefund" -> "suicide_refund"
      [] reason = "SuicideWithdraw" -> "suicide_withdraw"

GasChangeReason ==
    {"Unknown", "Call", "CallCode", "CallDataCopy", "CodeCopy", "CodeStorage",
     "ContractCreation", "ContractCreation2", "DelegateCall", "EventLog",
     "ExtCodeCopy", "FailedExecution", "IntrinsicGas", "PrecompiledContract",
     "RefundAfterExecution", "Return", "ReturnDataCopy", "Revert",
     "SelfDestruct", "StaticCall", "StateColdAccess", "Ignored"}

\* the match arm of Display for GasChangeReason that panics
GasReasonPanics(reason) == reason = "Ignored"

\* impl Display for GasChangeReason, on the arms that yield a token
GasReasonToken(reason) ==
    CASE reason = "Unknown" -> "unknown"
      [] reason = "Call" -> "call"
      [] reason = "CallCode" -> "call_code"
      [] reason = "CallDataCopy" -> "call_data_copy"
      [] reason = "CodeCopy" -> "code_copy"
      [] reason = "CodeStorage" -> "code_storage"
      [] reason = "ContractCreation" -> "contract_creation"
      [] reason = "ContractCreation2" -> "contract_creation2"
      [] reason = "DelegateCall" -> "delegate_call"
      [] reason = "EventLog" -> "event_log"
      [] reason = "ExtCodeCopy" -> "ext_code_copy"
      [] reason = "FailedExecution" -> "failed_execution"
      [] reason = "IntrinsicGas" -> "intrinsic_gas"
      [] reason = "PrecompiledContract" -> "precompiled_contract"
      [] reason = "RefundAfterExecution" -> "refund_after_execution"
      [] reason = "Return" -> "return"
      [] reason = "ReturnDataCopy" -> "return_data_copy"
      [] reason = "Revert" -> "revert"
      [] reason = "SelfDestruct" -> "self_destruct"
      [] reason = "StaticCall" -> "static_call"
      [] reason = "StateColdAccess" -> "state_cold_access"

\* impl Display for CallType
CallTypeToken(call_type) ==
    CASE call_type = "Call" -> "CALL"
      [] call_type = "CallCode" -> "CALLCODE"
      [] call_type = "Create" -> "CREATE"
      [] call_type = "Create2" -> "CREATE"
      [] call_type = "DelegateCall" -> "DELEGATE"
      [] call_type = "StaticCall" -> "STATIC"

----------------------------------------------------------------------------
(* Machine arithmetic and the line sink. *)

\* a - b on u64: exact when it fits; on underflow a build with overflow checks
\* panics (None) and a build without them wraps
SubU64(a, b) ==
    IF b <= a THEN {Some(a - b)} ELSE {None, Some((a - b) % U64Modulus)}

\* a + b on u64, with the same two outcomes on overflow
AddU64(a, b) ==
    IF a + b < U64Modulus THEN {Some(a + b)} ELSE {None, Some((a + b) % U64Modulus)}

IsCallEvent(line) == line[1] \in {"EVM_RUN_CALL", "EVM_END_CALL"}

\* keyword and call index of the EVM_RUN_CALL / EVM_END_CALL lines among `lines`
CallEvents(lines) ==
    LET sel == SelectSeq(lines, IsCallEvent)
    IN  [i \in 1..Len(sel) |->
            <<sel[i][1], IF sel[i][1] = "EVM_RUN_CALL" THEN sel[i][3] ELSE sel[i][2]>>]

\* Printer::print, once per line of `lines`, in order: IoPrinter writes the
\* line, DiscardPrinter keeps the trait's empty default
print(lines) ==
    /\ out' = IF printer = "IoPrinter" THEN lines ELSE <<>>
    /\ call_events' = call_events \o CallEvents(IF printer = "IoPrinter" THEN lines ELSE <<>>)

\* panic! reached before the operation `name` printed or assigned anything
Panic(name) ==
    /\ op' = name
    /\ panicked' = TRUE
    /\ print(<<>>)
    /\ UNCHANGED <<tracer_vars, context_vars, block_vars>>

----------------------------------------------------------------------------
(* BlockContext::transaction_tracer and the TransactionTracer. *)

\* active_call_index answering with the call counter instead of the stack top
active_call_index_counter == call_index

\* TransactionTracer::active_call_index
active_call_index ==
    IF Len(call_stack) <= 0 THEN 0 ELSE call_stack[Len(call_stack)]

\* TransactionTracer::seen_failed_call
seen_failed_call == IsSome(active_gas_left_at_failure)

\* TransactionTracer::get_log_count
get_log_count == log_count

\* TransactionTracer::debug: the line handed to Printer::debug, which is not
\* part of the DMLOG transcript
debug(message) ==
    <<"CONTEXT", "active_call_index=" \o Dec(active_call_index),
      "last_pop_call_index=" \o Dec(IF IsSome(last_pop_call_index)
                                    THEN Unwrap(last_pop_call_index) ELSE 0),
      "message=" \o message>>

\* transaction_tracer carrying the call counter over from the previous tracer
transaction_tracer_keeps_counter ==
    /\ ~panicked
    /\ op' = "transaction_tracer"
    /\ last_pop_call_index' = None
    /\ call_stack' = <<>>
    /\ gas_event_call_stack' = <<>>
    /\ active_gas_left_at_failure' = None
    /\ log_in_block_index' = log_index_at_block
    /\ log_count' = 0
    /\ out' = <<>>
    /\ call_events' = <<>>
    /\ UNCHANGED <<call_index, context_vars, block_vars, panicked>>

\* BlockContext::transaction_tracer: the host drops the tracer of the previous
\* transaction and traces the next transaction with a new one (hash is kept
\* out of the model: it only appears in panic messages)
transaction_tracer ==
    /\ ~panicked
    /\ op' = "transaction_tracer"
    /\ call_index' = 0
    /\ last_pop_call_index' = None
    /\ call_stack' = <<>>
    /\ gas_event_call_stack' = <<>>
    /\ active_gas_left_at_failure' = None
    /\ log_in_block_index' = log_index_at_block
    /\ log_count' = 0
    /\ out' = <<>>
    /\ call_events' = <<>>
    /\ UNCHANGED <<context_vars, block_vars, panicked>>

\* the calls the host hands to start_call
Calls ==
    {[call_type |-> "Call", from |-> 1, to |-> 1, value |-> Some(100),
      gas_limit |-> 21000, input |-> Some(<<>>)],
     [call_type |-> "Create", from |-> 1, to |-> 0, value |-> None,
      gas_limit |-> 1, input |-> None]}

\* the arguments the host hands to failed_call
FailedCallInputs == {<<0, "OutOfGas">>, <<1, "BadInstruction">>}

\* the arguments the host hands to end_call
EndCallInputs == {<<0, None>>, <<1, Some(<<171>>)>>}

\* the two lines start_call prints for call number `idx`
StartCallLines(call, idx) ==
    << <<"EVM_RUN_CALL", CallTypeToken(call.call_type), Dec(idx)>>,
       <<"EVM_PARAM", CallTypeToken(call.call_type), Dec(idx),
         Address(call.from), Address(call.to),
         U256(IF IsSome(call.value) THEN Unwrap(call.value) ELSE 0),
         Dec(call.gas_limit),
         Hex(IF IsSome(call.input) THEN Unwrap(call.input) ELSE <<>>)>> >>

\* start_call numbering the call by its depth in the call stack
start_call_numbers_by_depth(call) ==
    /\ ~panicked
    /\ op' = "start_call"
    /\ call_index' = Len(call_stack) + 1
    /\ call_stack' = Append(call_stack, call_index')
    /\ print(StartCallLines(call, call_index'))
    /\ UNCHANGED <<last_pop_call_index, gas_event_call_stack,
                   active_gas_left_at_failure, log_in_block_index, log_count,
                   context_vars, block_vars, panicked>>

\* start_call pushing the call counter before it counts the call
start_call_pushes_before_counting(call) ==
    /\ ~panicked
    /\ op' = "start_call"
    /\ call_stack' = Append(call_stack, call_index)
    /\ call_index' = call_index + 1
    /\ print(StartCallLines(call, call_index'))
    /\ UNCHANGED <<last_pop_call_index, gas_event_call_stack,
                   active_gas_left_at_failure, log_in_block_index, log_count,
                   context_vars, block_vars, panicked>>

\* TransactionTracer::start_call
start_call(call) ==
    /\ ~panicked
    /\ op' = "start_call"
    /\ call_index' = call_index + 1
    /\ call_stack' = Append(call_stack, call_index')
    /\ print(StartCallLines(call, call_index'))
    /\ UNCHANGED <<last_pop_call_index, gas_event_call_stack,
                   active_gas_left_at_failure, log_in_block_index, log_count,
                   context_vars, block_vars, panicked>>

\* reverted_call closing the call itself
reverted_call_pops(gas_left) ==
    /\ ~panicked
    /\ op' = "reverted_call"
    /\ print(<< <<"EVM_CALL_FAILED", Dec(active_call_index), Dec(gas_left), "Reverted">>,
                <<"EVM_REVERTED", Dec(active_call_index)>> >>)
    /\ call_stack' = SubSeq(call_stack, 1, Len(call_stack) - 1)
    /\ UNCHANGED <<call_index, last_pop_call_index, gas_event_call_stack,
                   active_gas_left_at_failure, log_in_block_index, log_count,
                   context_vars, block_vars, panicked>>

\* TransactionTracer::reverted_call (&self: no field can change)
reverted_call(gas_left) ==
    /\ ~panicked
    /\ op' = "reverted_call"
    /\ print(<< <<"EVM_CALL_FAILED", Dec(active_call_index), Dec(gas_left), "Reverted">>,
                <<"EVM_REVERTED", Dec(active_call_index)>> >>)
    /\ UNCHANGED <<tracer_vars, context_vars, block_vars, panicked>>

\* TransactionTracer::failed_call past its check: print, then store the gas left
StoreFailure(gas_left_at_failure, err) ==
    /\ op' = "failed_call"
    /\ print(<< <<"EVM_CALL_FAILED", Dec(active_call_index),
                  Dec(gas_left_at_failure), err>> >>)
    /\ active_gas_left_at_failure' = Some(gas_left_at_failure)
    /\ UNCHANGED <<call_index, last_pop_call_index, call_stack,
                   gas_event_call_stack, log_in_block_index, log_count,
                   context_vars, block_vars, panicked>>

\* failed_call without the check for a pending failure
failed_call_overwrites(gas_left_at_failure, err) ==
    /\ ~panicked
    /\ StoreFailure(gas_left_at_failure, err)

\* TransactionTracer::failed_call
failed_call(gas_left_at_failure, err) ==
    /\ ~panicked
    /\ IF IsSome(active_gas_left_at_failure)
       THEN Panic("failed_call")
       ELSE StoreFailure(gas_left_at_failure, err)

\* PopValue taking the oldest element instead of the newest
PopValueBottom(stack) == stack[1]

\* Vec::pop on a non-empty stack: the element removed
PopValue(stack) == stack[Len(stack)]

\* PopRest leaving the element on the stack
PopRestKeepsTop(stack) == stack

\* Vec::pop on a non-empty stack: the stack left
PopRest(stack) == SubSeq(stack, 1, Len(stack) - 1)

\* the line end_call prints for the popped index
EndCallLine(idx, gas_left, return_data) ==
    <<"EVM_END_CALL", Dec(idx), Dec(gas_left),
      Hex(IF IsSome(return_data) THEN Unwrap(return_data) ELSE <<>>)>>

\* end_call dropping the pending failure
CloseCallClearsFailure(gas_left, return_data) ==
    /\ op' = "end_call"
    /\ call_stack' = SubSeq(call_stack, 1, Len(call_stack) - 1)
    /\ print(<< <<"EVM_END_CALL", Dec(call_stack[Len(call_stack)]), Dec(gas_left),
                  Hex(IF IsSome(return_data) THEN Unwrap(return_data) ELSE <<>>)>> >>)
    /\ last_pop_call_index' = Some(call_stack[Len(call_stack)])
    /\ active_gas_left_at_failure' = None
    /\ UNCHANGED <<call_index, gas_event_call_stack, log_in_block_index,
                   log_count, context_vars, block_vars, panicked>>

\* TransactionTracer::end_call on a non-empty call stack
CloseCall(gas_left, return_data) ==
    /\ op' = "end_call"
    /\ call_stack' = PopRest(call_stack)
    /\ print(<<EndCallLine(PopValue(call_stack), gas_left, return_data)>>)
    /\ last_pop_call_index' = Some(PopValue(call_stack))
    /\ UNCHANGED <<call_index, gas_event_call_stack,
                   active_gas_left_at_failure, log_in_block_index,
                   log_count, context_vars, block_vars, panicked>>

\* end_call skipping the close when no call is open
end_call_skips_when_empty(gas_left, return_data) ==
    /\ ~panicked
    /\ IF call_stack = <<>>
       THEN /\ op' = "end_call"
            /\ print(<<>>)
            /\ UNCHANGED <<tracer_vars, context_vars, block_vars, panicked>>
       ELSE CloseCall(gas_left, return_data)

\* TransactionTracer::end_call
end_call(gas_left, return_data) ==
    /\ ~panicked
    /\ IF call_stack = <<>>
       THEN Panic("end_call")
       ELSE CloseCall(gas_left, return_data)

\* record_gas_change: the lines it prints
record_gas_change(idx, old, new, reason) ==
    IF reason # "Ignored"
    THEN << <<"GAS_CHANGE", Dec(idx), Dec(old), Dec(new), GasReasonToken(reason)>> >>
    ELSE <<>>

\* record_gas_consume without the check for a zero amount
GasConsumeKeepsZero(gas_old, gas_consumed, reason) ==
    {IF IsSome(new)
     THEN Some(record_gas_change(active_call_index, gas_old, Unwrap(new), reason))
     ELSE None : new \in SubU64(gas_old, gas_consumed)}

\* TransactionTracer::record_gas_consume: its outcomes, None for a panic on the
\* subtraction and Some(lines) for the lines printed
GasConsume(gas_old, gas_consumed, reason) ==
    IF gas_consumed # 0
    THEN {IF IsSome(new)
          THEN Some(record_gas_change(active_call_index, gas_old, Unwrap(new), reason))
          ELSE None : new \in SubU64(gas_old, gas_consumed)}
    ELSE {Some(<<>>)}

\* TransactionTracer::record_gas_refund: its outcomes, as for GasConsume
GasRefund(gas_old, gas_refund) ==
    IF gas_refund # 0
    THEN {IF IsSome(new)
          THEN Some(record_gas_change(active_call_index, gas_old, Unwrap(new),
                                      "RefundAfterExecution"))
          ELSE None : new \in AddU64(gas_old, gas_refund)}
    ELSE {Some(<<>>)}

\* TransactionTracer::end_failed_call past its check: clear the pending
\* failure, record_gas_consume of all the gas left, then end_call(0, None)
ConsumeFailure(gas_left_at_failure) ==
    \E consumed \in GasConsume(gas_left_at_failure, gas_left_at_failure,
                               "FailedExecution") :
       /\ op' = "end_failed_call"
       /\ active_gas_left_at_failure' = None
       /\ IF ~IsSome(consumed) \/ call_stack = <<>>
          THEN \* record_gas_consume or end_call panics
               /\ panicked' = TRUE
               /\ print(IF IsSome(consumed) THEN Unwrap(consumed) ELSE <<>>)
               /\ UNCHANGED <<call_stack, last_pop_call_index>>
          ELSE /\ call_stack' = PopRest(call_stack)
               /\ print(Unwrap(consumed)
                        \o <<EndCallLine(PopValue(call_stack), 0, None)>>)
               /\ last_pop_call_index' = Some(PopValue(call_stack))
               /\ UNCHANGED panicked
       /\ UNCHANGED <<call_index, gas_event_call_stack,
                      log_in_block_index, log_count, context_vars, block_vars>>

\* end_failed_call taking a missing pending failure for 0 gas left
end_failed_call_defaults_to_zero ==
    /\ ~panicked
    /\ ConsumeFailure(IF IsSome(active_gas_left_at_failure)
                      THEN Unwrap(active_gas_left_at_failure) ELSE 0)

\* TransactionTracer::end_failed_call (its `from` argument only appears in the
\* panic message)
end_failed_call ==
    /\ ~panicked
    /\ IF ~IsSome(active_gas_left_at_failure)
       THEN Panic("end_failed_call")
       ELSE ConsumeFailure(Unwrap(active_gas_left_at_failure))

----------------------------------------------------------------------------
(* Change-recording operations of the TransactionTracer. *)

\* an operation that prints `lines` and assigns no field
Record(name, lines) ==
    /\ op' = name
    /\ print(lines)
    /\ UNCHANGED <<tracer_vars, context_vars, block_vars, panicked>>

\* fn record_balance_change printing a token of its own for CallBalanceOverride
BalanceChangePrintsOverride(idx, address, old, new, reason) ==
    IF reason # "Ignored"
    THEN Some(<< <<"BALANCE_CHANGE", Dec(idx), Address(address), U256(old),
                   U256(new),
                   IF reason = "CallBalanceOverride" THEN "call_balance_override"
                   ELSE BalanceReasonToken(reason)>> >>)
    ELSE Some(<<>>)

\* fn record_balance_change: None when formatting the reason panics, else
\* Some(lines printed)
BalanceChange(idx, address, old, new, reason) ==
    IF reason # "Ignored"
    THEN IF BalanceReasonPanics(reason)
         THEN None
         ELSE Some(<< <<"BALANCE_CHANGE", Dec(idx), Address(address), U256(old),
                        U256(new), BalanceReasonToken(reason)>> >>)
    ELSE Some(<<>>)

\* the arguments the host hands to record_balance_change
BalanceInputs ==
    {<<1, 0, 100, "Transfer">>, <<1, 0, 1, "Ignored">>,
     <<1, 0, 1, "CallBalanceOverride">>}

\* TransactionTracer::record_balance_change
record_balance_change(address, old, new, reason) ==
    /\ ~panicked
    /\ LET change == BalanceChange(active_call_index, address, old, new, reason)
       IN  IF IsSome(change)
           THEN Record("record_balance_change", Unwrap(change))
           ELSE Panic("record_balance_change")

\* BlockTracer::record_balance_change tagging the line with the active call
\* index of the transaction tracer
BlockTracer_record_balance_change_active(address, old, new, reason) ==
    /\ ~panicked
    /\ LET change == BalanceChange(active_call_index, address, old, new, reason)
       IN  IF IsSome(change)
           THEN Record("BlockTracer_record_balance_change", Unwrap(change))
           ELSE Panic("BlockTracer_record_balance_change")

\* Context::block_tracer and BlockTracer::record_balance_change: a balance
\* change outside of any transaction, always under call index 0
BlockTracer_record_balance_change(address, old, new, reason) ==
    /\ ~panicked
    /\ LET change == BalanceChange(0, address, old, new, reason)
       IN  IF IsSome(change)
           THEN Record("BlockTracer_record_balance_change", Unwrap(change))
           ELSE Panic("BlockTracer_record_balance_change")

\* the hooks of trait Tracer that BlockTracer does not override
TracerHooks ==
    {"start_call", "reverted_call", "failed_call", "end_call", "seen_failed_call",
     "end_failed_call", "record_nonce_change", "record_keccak", "record_new_account",
     "record_suicide", "record_storage_change", "record_log",
     "record_call_without_code", "record_gas_refund", "record_gas_consume",
     "record_code_change", "record_before_call_gas_event",
     "record_after_call_gas_event", "get_log_count", "debug"}

\* a hook of trait Tracer called on a BlockTracer: the trait's empty default
\* body, whatever the arguments
BlockTracer_default(hook) ==
    /\ ~panicked
    /\ Record("BlockTracer_" \o hook, <<>>)

\* TransactionTracer::record_nonce_change
record_nonce_change(address, old, new) ==
    /\ ~panicked
    /\ Record("record_nonce_change",
              << <<"NONCE_CHANGE", Dec(active_call_index), Address(address),
                   Dec(old), Dec(new)>> >>)

\* TransactionTracer::record_keccak
record_keccak(hash_of_data, data) ==
    /\ ~panicked
    /\ Record("record_keccak",
              << <<"EVM_KECCAK", Dec(active_call_index), H256(hash_of_data),
                   Hex(data)>> >>)

\* TransactionTracer::record_call_without_code
record_call_without_code ==
    /\ ~panicked
    /\ Record("record_call_without_code",
              << <<"ACCOUNT_WITHOUT_CODE", Dec(active_call_index)>> >>)

\* the arguments the host hands to record_gas_consume
GasConsumeInputs ==
    {<<1, 1, "Call">>, <<1, 0, "Call">>, <<0, 1, "CodeCopy">>, <<1, 1, "Ignored">>,
     <<0, 1, "Ignored">>}

\* TransactionTracer::record_gas_consume
record_gas_consume(gas_old, gas_consumed, reason) ==
    /\ ~panicked
    /\ \E consumed \in GasConsume(gas_old, gas_consumed, reason) :
          IF IsSome(consumed)
          THEN Record("record_gas_consume", Unwrap(consumed))
          ELSE Panic("record_gas_consume")

\* TransactionTracer::record_gas_refund
record_gas_refund(gas_old, gas_refund) ==
    /\ ~panicked
    /\ \E refund \in GasRefund(gas_old, gas_refund) :
          IF IsSome(refund)
          THEN Record("record_gas_refund", Unwrap(refund))
          ELSE Panic("record_gas_refund")

RECURSIVE Join(_)
\* topics.join(",")
Join(tokens) ==
    IF tokens = <<>> THEN ""
    ELSE IF Len(tokens) = 1 THEN tokens[1]
    ELSE tokens[1] \o "," \o Join(Tail(tokens))

\* the logs the host hands to record_log
Logs == {[address |-> 1, topics |-> <<1, 0>>, data |-> <<171>>]}

\* TransactionTracer::record_log
\* record_log numbering the log within its transaction
record_log_counts_per_transaction(log) ==
    /\ ~panicked
    /\ op' = "record_log"
    /\ print(<< <<"ADD_LOG", Dec(active_call_index), Dec(log_count),
                  Address(log.address),
                  Join([i \in 1..Len(log.topics) |-> H256_to_hex(log.topics[i])]),
                  Hex(log.data)>> >>)
    /\ log_count' = log_count + 1
    /\ log_in_block_index' = log_in_block_index + 1
    /\ UNCHANGED <<call_index, last_pop_call_index, call_stack,
                   gas_event_call_stack, active_gas_left_at_failure, context_vars, block_vars,
                   panicked>>

record_log(log) ==
    /\ ~panicked
    /\ op' = "record_log"
    /\ print(<< <<"ADD_LOG", Dec(active_call_index), Dec(log_in_block_index),
                  Address(log.address),
                  Join([i \in 1..Len(log.topics) |-> H256_to_hex(log.topics[i])]),
                  Hex(log.data)>> >>)
    /\ log_count' = log_count + 1
    /\ log_in_block_index' = log_in_block_index + 1
    /\ UNCHANGED <<call_index, last_pop_call_index, call_stack,
                   gas_event_call_stack, active_gas_left_at_failure, context_vars, block_vars,
                   panicked>>

\* record_storage_change tagging the line with the call counter
record_storage_change_tags_counter(address, key, old_data, new_data) ==
    /\ ~panicked
    /\ Record("record_storage_change",
              << <<"STORAGE_CHANGE", Dec(call_index), Address(address),
                   H256(key), H256(old_data), H256(new_data)>> >>)

\* TransactionTracer::record_storage_change
record_storage_change(address, key, old_data, new_data) ==
    /\ ~panicked
    /\ Record("record_storage_change",
              << <<"STORAGE_CHANGE", Dec(active_call_index), Address(address),
                   H256(key), H256(old_data), H256(new_data)>> >>)

\* Display of a bool
Bool(b) == IF b THEN "true" ELSE "false"

\* TransactionTracer::record_suicide
record_suicide(address, already_suicided, balance_before_suicide) ==
    /\ ~panicked
    /\ Record("record_suicide",
              << <<"SUICIDE_CHANGE", Dec(active_call_index), Address(address),
                   Bool(already_suicided), U256(balance_before_suicide)>> >>)

\* TransactionTracer::record_new_account
record_new_account(address) ==
    /\ ~panicked
    /\ Record("record_new_account",
              << <<"CREATED_ACCOUNT", Dec(active_call_index), Address(address)>> >>)

\* TransactionTracer::record_code_change
record_code_change(address, input_hash, code_hash, old_code, new_code) ==
    /\ ~panicked
    /\ Record("record_code_change",
              << <<"CODE_CHANGE", Dec(active_call_index), Address(address),
                   H256(input_hash), Hex(old_code), H256(code_hash),
                   Hex(new_code)>> >>)

\* record_before_call_gas_event linking to the active call index plus one
record_before_call_gas_event_from_active(gas_value) ==
    /\ ~panicked
    /\ op' = "record_before_call_gas_event"
    /\ LET for_call_index == active_call_index + 1
       IN  /\ gas_event_call_stack' = Append(gas_event_call_stack, for_call_index)
           /\ print(<< <<"GAS_EVENT", Dec(active_call_index), Dec(for_call_index),
                         "before_call", Dec(gas_value)>> >>)
    /\ UNCHANGED <<call_index, last_pop_call_index, call_stack,
                   active_gas_left_at_failure, log_in_block_index, log_count,
                   context_vars, block_vars, panicked>>

\* TransactionTracer::record_before_call_gas_event
record_before_call_gas_event(gas_value) ==
    /\ ~panicked
    /\ op' = "record_before_call_gas_event"
    /\ LET for_call_index == call_index + 1
       IN  /\ gas_event_call_stack' = Append(gas_event_call_stack, for_call_index)
           /\ print(<< <<"GAS_EVENT", Dec(active_call_index), Dec(for_call_index),
                         "before_call", Dec(gas_value)>> >>)
    /\ UNCHANGED <<call_index, last_pop_call_index, call_stack,
                   active_gas_left_at_failure, log_in_block_index, log_count,
                   context_vars, block_vars, panicked>>

\* record_after_call_gas_event reading the top of the gas-event stack without
\* removing it
record_after_call_gas_event_keeps_frame(gas_value) ==
    /\ ~panicked
    /\ IF gas_event_call_stack = <<>>
       THEN Panic("record_after_call_gas_event")
       ELSE /\ op' = "record_after_call_gas_event"
            /\ print(<< <<"GAS_EVENT", Dec(active_call_index),
                          Dec(PopValue(gas_event_call_stack)), "after_call",
                          Dec(gas_value)>> >>)
            /\ UNCHANGED <<tracer_vars, context_vars, block_vars, panicked>>

\* record_after_call_gas_event closing the active call as well
record_after_call_gas_event_pops_call(gas_value) ==
    /\ ~panicked
    /\ IF gas_event_call_stack = <<>>
       THEN Panic("record_after_call_gas_event")
       ELSE /\ op' = "record_after_call_gas_event"
            /\ gas_event_call_stack' = PopRest(gas_event_call_stack)
            /\ call_stack' = IF call_stack = <<>> THEN <<>> ELSE PopRest(call_stack)
            /\ print(<< <<"GAS_EVENT", Dec(active_call_index),
                          Dec(PopValue(gas_event_call_stack)), "after_call",
                          Dec(gas_value)>> >>)
            /\ UNCHANGED <<call_index, last_pop_call_index,
                           active_gas_left_at_failure, log_in_block_index,
                           log_count, context_vars, block_vars, panicked>>

\* TransactionTracer::record_after_call_gas_event
record_after_call_gas_event(gas_value) ==
    /\ ~panicked
    /\ IF gas_event_call_stack = <<>>
       THEN Panic("record_after_call_gas_event")
       ELSE /\ op' = "record_after_call_gas_event"
            /\ gas_event_call_stack' = PopRest(gas_event_call_stack)
            /\ print(<< <<"GAS_EVENT", Dec(active_call_index),
                          Dec(PopValue(gas_event_call_stack)), "after_call",
                          Dec(gas_value)>> >>)
            /\ UNCHANGED <<call_index, last_pop_call_index, call_stack,
                           active_gas_left_at_failure, log_in_block_index,
                           log_count, context_vars, block_vars, panicked>>

----------------------------------------------------------------------------
(* The tracer driven by the host through one block. *)

\* Context::new(Instrumentation::Full), Context::init, Context::block_context
\* and BlockContext::transaction_tracer: the first tracer of a block
Init ==
    /\ instrumentation = "Full"
    /\ printer = "IoPrinter"
    /\ is_enabled = TRUE
    /\ is_finalize_block_enabled = TRUE
    /\ cumulative_gas_used = 0
    /\ log_index_at_block = 0
    /\ call_index = 0
    /\ last_pop_call_index = None
    /\ call_stack = <<>>
    /\ gas_event_call_stack = <<>>
    /\ active_gas_left_at_failure = None
    /\ log_in_block_index = log_index_at_block
    /\ log_count = 0
    /\ op = "transaction_tracer"
    /\ out = <<>>
    /\ call_events = <<>>
    /\ panicked = FALSE
    /\ started = TRUE
    /\ scope = "transaction"
    /\ gas_event_befores = <<>>
    /\ tracer_offset = 0
    /\ tracer_logs = <<>>
    /\ first_line = "INIT"
    /\ init_lines = 1
    /\ block_log_indices = <<>>
    /\ log_protocol = "pending"
    /\ gas_used_emitted = 0
    /\ receipts_in_order = TRUE

\* a step in which the host does nothing but drive the tracer
TracerOnly == UNCHANGED <<host_vars, tracer_transcript, sink_transcript>>

\* the operations of the call, failure and gas-event protocol
CallOps ==
    \/ transaction_tracer /\ TracerOnly
    \/ \E call \in Calls : call_index < MaxCalls /\ start_call(call) /\ TracerOnly
    \/ \E gas_left \in Gas : reverted_call(gas_left) /\ TracerOnly
    \/ \E i \in FailedCallInputs : failed_call(i[1], i[2]) /\ TracerOnly
    \/ \E i \in EndCallInputs : end_call(i[1], i[2]) /\ TracerOnly
    \/ end_failed_call /\ TracerOnly
    \/ /\ Len(gas_event_call_stack) < MaxGasEvents
       /\ record_before_call_gas_event(1) /\ TracerOnly
    \/ record_after_call_gas_event(0) /\ TracerOnly

\* the change-recording operations
RecordOps ==
    \/ \E i \in BalanceInputs : record_balance_change(i[1], i[2], i[3], i[4]) /\ TracerOnly
    \/ record_nonce_change(1, 0, 1) /\ TracerOnly
    \/ \E data \in ByteStrings : record_keccak(1, data) /\ TracerOnly
    \/ record_call_without_code /\ TracerOnly
    \/ \E i \in GasConsumeInputs : record_gas_consume(i[1], i[2], i[3]) /\ TracerOnly
    \/ \E gas_refund \in Gas : record_gas_refund(1, gas_refund) /\ TracerOnly
    \/ \E log \in Logs : log_count < MaxLogs /\ record_log(log) /\ TracerOnly
    \/ \E new_data \in Hashes : record_storage_change(1, 1, 0, new_data) /\ TracerOnly
    \/ record_suicide(1, FALSE, 100) /\ TracerOnly
    \/ \E address \in Addresses : record_new_account(address) /\ TracerOnly
    \/ record_code_change(1, 0, 1, <<>>, <<171>>) /\ TracerOnly

\* the change-recording operation of the block tracer
BlockTracerOps ==
    \E i \in BalanceInputs :
       BlockTracer_record_balance_change(i[1], i[2], i[3], i[4]) /\ TracerOnly

Next == CallOps \/ RecordOps \/ BlockTracerOps

\* the transaction tracers of one block, driven by the host
Spec == Init /\ [][Next]_vars

\* the operations of a BlockTracer, next to a transaction tracer with calls
BlockTracerNext ==
    \/ \E reason \in BalanceChangeReason :
          BlockTracer_record_balance_change(1, 0, 100, reason) /\ TracerOnly
    \/ \E hook \in TracerHooks : BlockTracer_default(hook) /\ TracerOnly
    \/ \E call \in Calls : call_index < MaxCalls /\ start_call(call) /\ TracerOnly
    \/ \E i \in EndCallInputs : end_call(i[1], i[2]) /\ TracerOnly

\* a BlockTracer of the Context, used while a transaction tracer exists
BlockTracerSpec == Init /\ [][BlockTracerNext]_vars

----------------------------------------------------------------------------
(* ActionParams: the calls the VM hands to start_call. *)

\* enum ActionValue: a transferred or an apparent (not transferred) value
ActionValues ==
    {[kind |-> k, amount |-> a] : k \in {"Transfer", "Apparent"}, a \in {0, 100}}

\* to_deepmind_value answering with the amount of either kind
to_deepmind_value_of_either_kind(action_value) == Some(action_value.amount)

\* ActionValue::to_deepmind_value
to_deepmind_value(action_value) ==
    IF action_value.kind = "Transfer" THEN Some(action_value.amount) ELSE None

\* ActionType::to_deepmind_call_type, for the two action types of the model
to_deepmind_call_type(action_type) ==
    CASE action_type = "ActionType::Call" -> "Call"
      [] action_type = "ActionType::Create" -> "Create"

\* U256::as_u64 of a gas amount below 2^64, as all gas amounts of the model
\* are: the value itself
as_u64(gas) == gas

\* the ActionParams of the model: data absent, empty or one byte
ActionParamsInputs ==
    {[code_address |-> a, sender |-> 1, gas |-> 21000, value |-> v, data |-> d,
      action_type |-> t] :
        a \in Addresses, v \in ActionValues, d \in {None, Some(<<>>), Some(<<171>>)},
        t \in {"ActionType::Call", "ActionType::Create"}}

\* ActionParams::to_deepmind_call
to_deepmind_call(params) ==
    [call_type |-> to_deepmind_call_type(params.action_type),
     from |-> params.sender,
     to |-> params.code_address,
     gas_limit |-> as_u64(params.gas),
     value |-> to_deepmind_value(params.value),
     input |-> params.data]

\* the calls of the VM, started from their ActionParams and ended
ActionParamsNext ==
    \/ \E params \in ActionParamsInputs :
          call_index < MaxCalls /\ start_call(to_deepmind_call(params)) /\ TracerOnly
    \/ \E i \in EndCallInputs : end_call(i[1], i[2]) /\ TracerOnly

\* a transaction tracer that the VM drives with the calls of its ActionParams
ActionParamsSpec == Init /\ [][ActionParamsNext]_vars

----------------------------------------------------------------------------
(* The gas events of a tracer around its calls. *)

\* depth of the gas-event stack when the gas events are followed
MaxGasEventDepth == 2

\* the lines with keyword kw among `lines`
LinesOf(kw, lines) == SelectSeq(lines, LAMBDA line : line[1] = kw)

\* number of EVM_RUN_CALL lines the tracer has printed
CallsStarted == Len(SelectSeq(call_events, LAMBDA e : e[1] = "EVM_RUN_CALL"))

\* the transcript of the gas events: a before_call GAS_EVENT line waits for the
\* after_call line that answers it, together with the call stack it was printed
\* under and the number of calls started before it
ObserveGasEvents ==
    /\ gas_event_befores' =
          IF op' = "transaction_tracer" THEN <<>>
          ELSE IF op' = "record_before_call_gas_event"
          THEN gas_event_befores
               \o [i \in 1..Len(LinesOf("GAS_EVENT", out')) |->
                      [stack |-> call_stack, started |-> CallsStarted,
                       line |-> LinesOf("GAS_EVENT", out')[i]]]
          ELSE IF op' = "record_after_call_gas_event" /\ ~panicked'
                  /\ gas_event_befores # <<>>
          THEN SubSeq(gas_event_befores, 1, Len(gas_event_befores) - 1)
          ELSE gas_event_befores
    /\ UNCHANGED <<host_vars, tracer_offset, tracer_logs, sink_transcript>>

GasEventNext ==
    \/ transaction_tracer /\ ObserveGasEvents
    \/ \E call \in Calls : call_index < MaxCalls /\ start_call(call) /\ ObserveGasEvents
    \/ \E i \in EndCallInputs : end_call(i[1], i[2]) /\ ObserveGasEvents
    \/ \E i \in FailedCallInputs : failed_call(i[1], i[2]) /\ ObserveGasEvents
    \/ end_failed_call /\ ObserveGasEvents
    \/ \E gas_value \in Gas :
          /\ Len(gas_event_call_stack) < MaxGasEventDepth
          /\ record_before_call_gas_event(gas_value) /\ ObserveGasEvents
    \/ \E gas_value \in Gas : record_after_call_gas_event(gas_value) /\ ObserveGasEvents

\* one tracer at a time, with its gas events followed
GasEventSpec == Init /\ [][GasEventNext]_vars

----------------------------------------------------------------------------
(* Context and BlockContext. *)

Instrumentation == {"Full", "BlockProgress", "None"}

PROTOCOL_MAJOR == 1
PROTOCOL_MINOR == 0
PLATFORM == "openethereum"
FORK == "vanilla"

\* to_deepmind_version(): the three parts of the platform version
PlatformVersions == {<<3, 1, 0>>}

\* the names of the consensus engine
Engines == {"Ethash"}

\* Context::is_enabled
Context_is_enabled == instrumentation = "Full"

\* Context::is_finalize_block_enabled
Context_is_finalize_block_enabled ==
    instrumentation = "Full" \/ instrumentation = "BlockProgress"

\* BlockContext::is_enabled
BlockContext_is_enabled == is_enabled

\* BlockContext::is_finalize_block_enabled
BlockContext_is_finalize_block_enabled == is_finalize_block_enabled

\* init printing the handshake once for the protocol and once for the platform
init_prints_two_lines(engine) ==
    /\ ~panicked
    /\ \E platform_version \in PlatformVersions :
          Record("init",
                 << <<"INIT", Dec(PROTOCOL_MAJOR), Dec(PROTOCOL_MINOR)>>,
                    <<"INIT", PLATFORM, FORK, Dec(platform_version[1]),
                      Dec(platform_version[2]), Dec(platform_version[3]), engine>> >>)

\* Context::init
init(engine) ==
    /\ ~panicked
    /\ \E platform_version \in PlatformVersions :
          Record("init",
                 << <<"INIT", Dec(PROTOCOL_MAJOR), Dec(PROTOCOL_MINOR), PLATFORM, FORK,
                      Dec(platform_version[1]), Dec(platform_version[2]),
                      Dec(platform_version[3]), engine>> >>)

\* block_context taking is_enabled from the finalize-block flag
block_context_enabled_by_finalize ==
    /\ ~panicked
    /\ op' = "block_context"
    /\ is_enabled' = Context_is_finalize_block_enabled
    /\ is_finalize_block_enabled' = Context_is_finalize_block_enabled
    /\ cumulative_gas_used' = 0
    /\ log_index_at_block' = 0
    /\ print(<<>>)
    /\ UNCHANGED <<tracer_vars, context_vars, panicked>>

\* Context::block_context
block_context ==
    /\ ~panicked
    /\ op' = "block_context"
    /\ is_enabled' = Context_is_enabled
    /\ is_finalize_block_enabled' = Context_is_finalize_block_enabled
    /\ cumulative_gas_used' = 0
    /\ log_index_at_block' = 0
    /\ print(<<>>)
    /\ UNCHANGED <<tracer_vars, context_vars, panicked>>

\* BlockContext::start_block
start_block(num) ==
    /\ ~panicked
    /\ Record("start_block", << <<"BEGIN_BLOCK", Dec(num)>> >>)

\* the transactions the host hands to start_transaction
Transactions ==
    {[hash |-> 1, from |-> 1, to |-> None, value |-> 0, gas_limit |-> 21000,
      gas_price |-> 1, nonce |-> 0, data |-> <<>>, signature |-> <<27, 1, 0>>],
     [hash |-> 1, from |-> 1, to |-> Some(0), value |-> 100, gas_limit |-> 21000,
      gas_price |-> 0, nonce |-> 1, data |-> <<171>>, signature |-> <<0, 0, 1>>]}

\* BlockContext::start_transaction
start_transaction(trx) ==
    /\ ~panicked
    /\ Record("start_transaction",
              << <<"BEGIN_APPLY_TRX", H256(trx.hash),
                   IF IsSome(trx.to) THEN Address(Unwrap(trx.to)) ELSE ".",
                   U256(trx.value), ToHex(trx.signature[1]), H256(trx.signature[2]),
                   H256(trx.signature[3]), Dec(trx.gas_limit), U256(trx.gas_price),
                   Dec(trx.nonce), Hex(trx.data)>>,
                 <<"TRX_FROM", Address(trx.from)>> >>)

\* BlockContext::record_log_count
\* record_log_count taking the count as the block's new offset
record_log_count_replaces_offset(count) ==
    /\ ~panicked
    /\ op' = "record_log_count"
    /\ log_index_at_block' = count
    /\ print(<<>>)
    /\ UNCHANGED <<tracer_vars, context_vars, is_enabled, is_finalize_block_enabled,
                   cumulative_gas_used, panicked>>

record_log_count(count) ==
    /\ ~panicked
    /\ \E sum \in AddU64(log_index_at_block, count) :
          IF IsSome(sum)
          THEN /\ op' = "record_log_count"
               /\ log_index_at_block' = Unwrap(sum)
               /\ print(<<>>)
               /\ UNCHANGED <<tracer_vars, context_vars, is_enabled,
                              is_finalize_block_enabled, cumulative_gas_used, panicked>>
          ELSE Panic("record_log_count")

\* BlockContext::get_cumulative_gas_used
get_cumulative_gas_used == cumulative_gas_used

\* BlockContext::set_cumulative_gas_used
set_cumulative_gas_used(gas_used) ==
    /\ ~panicked
    /\ op' = "set_cumulative_gas_used"
    /\ cumulative_gas_used' = gas_used
    /\ print(<<>>)
    /\ UNCHANGED <<tracer_vars, context_vars, is_enabled, is_finalize_block_enabled,
                   log_index_at_block, panicked>>

\* a string between double quotes
Quoted(str) == "\"" \o str \o "\""

RECURSIVE JoinComma(_)
\* the elements of a JSON array, separated by commas
JoinComma(items) ==
    IF items = <<>> THEN ""
    ELSE IF Len(items) = 1 THEN items[1]
    ELSE items[1] \o "," \o JoinComma(Tail(items))

\* impl Serialize for Hex
HexJson(bytes) == Quoted("0x" \o BytesToHex(bytes))

\* impl Serialize for U64
U64Json(n) == Quoted("0x" \o ToHex(n))

\* Serialize of eth::Address
AddressJson(a) == Quoted("0x" \o PadHex(a, 40))

\* Serialize of eth::H256
H256Json(h) == Quoted("0x" \o PadHex(h, 64))

\* Serialize of eth::H64
H64Json(h) == Quoted("0x" \o PadHex(h, 16))

\* Serialize of eth::U256
U256Json(v) == Quoted("0x" \o ToHex(v))

\* derive(Serialize) for Log, fields in camelCase
LogJson(log) ==
    "{" \o Quoted("address") \o ":" \o AddressJson(log.address)
    \o "," \o Quoted("topics") \o ":["
    \o JoinComma([i \in 1..Len(log.topics) |-> H256Json(log.topics[i])]) \o "]"
    \o "," \o Quoted("data") \o ":" \o HexJson(log.data) \o "}"

\* serde_json::to_string of a Vec<Log>
LogsJson(logs) == "[" \o JoinComma([i \in 1..Len(logs) |-> LogJson(logs[i])]) \o "]"

\* gas a block's receipts account for
MaxGasUsed == 2

\* the receipts the host hands to end_transaction
Receipts ==
    {[cumulative_gas_used |-> gas, post_state |-> gas % 2, logs_bloom |-> <<171>>,
      logs |-> IF gas % 2 = 1
               THEN <<[address |-> 1, topics |-> <<1, 0>>, data |-> <<171>>]>>
               ELSE <<>>] : gas \in 0..MaxGasUsed}

\* H256::as_bytes: the 32 big-endian bytes of a hash (the hashes of the model
\* are below 256)
as_bytes(h) == [i \in 1..32 |-> IF i = 32 THEN h ELSE 0]

\* the line end_transaction prints for the gas used by the transaction
EndTransactionLine(gas_used, receipt) ==
    <<"END_APPLY_TRX", Dec(gas_used),
      Hex(IF receipt.post_state # 0 THEN as_bytes(receipt.post_state) ELSE <<>>),
      Dec(receipt.cumulative_gas_used), Hex(receipt.logs_bloom),
      LogsJson(receipt.logs)>>

\* BlockContext::end_transaction
end_transaction(receipt) ==
    /\ ~panicked
    /\ \E gas_used \in SubU64(receipt.cumulative_gas_used, cumulative_gas_used) :
          IF IsSome(gas_used)
          THEN /\ op' = "end_transaction"
               /\ print(<<EndTransactionLine(Unwrap(gas_used), receipt)>>)
               /\ cumulative_gas_used' = receipt.cumulative_gas_used
               /\ UNCHANGED <<tracer_vars, context_vars, is_enabled,
                              is_finalize_block_enabled, log_index_at_block, panicked>>
          ELSE Panic("end_transaction")

\* BlockContext::finalize_block
finalize_block(num) ==
    /\ ~panicked
    /\ Record("finalize_block", << <<"FINALIZE_BLOCK", Dec(num)>> >>)

\* the headers the host hands to end_block
Headers ==
    {[parent_hash |-> 1, sha3_uncles |-> 0, miner |-> 1, state_root |-> 1,
      transactions_root |-> 1, receipts_root |-> 1, logs_bloom |-> <<>>,
      difficulty |-> 0, number |-> 5, gas_limit |-> 21000, gas_used |-> 0,
      timestamp |-> 1, extra_data |-> <<171>>, mix_hash |-> 0, nonce |-> 1,
      hash |-> 1]}

\* derive(Serialize) for Header, fields in camelCase
HeaderJson(header) ==
    "{" \o Quoted("parentHash") \o ":" \o H256Json(header.parent_hash)
    \o "," \o Quoted("sha3Uncles") \o ":" \o H256Json(header.sha3_uncles)
    \o "," \o Quoted("miner") \o ":" \o AddressJson(header.miner)
    \o "," \o Quoted("stateRoot") \o ":" \o H256Json(header.state_root)
    \o "," \o Quoted("transactionsRoot") \o ":" \o H256Json(header.transactions_root)
    \o "," \o Quoted("receiptsRoot") \o ":" \o H256Json(header.receipts_root)
    \o "," \o Quoted("logsBloom") \o ":" \o HexJson(header.logs_bloom)
    \o "," \o Quoted("difficulty") \o ":" \o U256Json(header.difficulty)
    \o "," \o Quoted("number") \o ":" \o U64Json(header.number)
    \o "," \o Quoted("gasLimit") \o ":" \o U256Json(header.gas_limit)
    \o "," \o Quoted("gasUsed") \o ":" \o U256Json(header.gas_used)
    \o "," \o Quoted("timestamp") \o ":" \o U64Json(header.timestamp)
    \o "," \o Quoted("extraData") \o ":" \o HexJson(header.extra_data)
    \o "," \o Quoted("mixHash") \o ":" \o H256Json(header.mix_hash)
    \o "," \o Quoted("nonce") \o ":" \o H64Json(header.nonce)
    \o "," \o Quoted("hash") \o ":" \o H256Json(header.hash) \o "}"

\* HeaderJson of the headers of the model, evaluated once
HeaderJsons == [header \in Headers |-> HeaderJson(header)]

\* serde_json::to_string of BlockEndMeta
BlockEndMetaJson(header, uncles) ==
    "{" \o Quoted("header") \o ":" \o HeaderJsons[header]
    \o "," \o Quoted("uncles") \o ":["
    \o JoinComma([i \in 1..Len(uncles) |-> HeaderJsons[uncles[i]]]) \o "]}"

\* BlockContext::end_block
end_block(num, size, header, uncles) ==
    /\ ~panicked
    /\ Record("end_block",
              << <<"END_BLOCK", Dec(num), Dec(size), BlockEndMetaJson(header, uncles)>> >>)

----------------------------------------------------------------------------
(* The host driving a Context through its blocks and transactions. *)

\* start_call operations per tracer when the blocks are followed
MaxBlockCalls == 1
\* ADD_LOG lines per block
MaxBlockLogs == 2

\* Context::new(instrumentation) or Context::noop(), then
\* Context::block_context: nothing printed yet, no tracer created yet
BlockInit ==
    /\ \/ instrumentation \in Instrumentation /\ printer = "IoPrinter"
       \/ instrumentation = "None" /\ printer = "DiscardPrinter"
    /\ is_enabled = Context_is_enabled
    /\ is_finalize_block_enabled = Context_is_finalize_block_enabled
    /\ cumulative_gas_used = 0
    /\ log_index_at_block = 0
    /\ call_index = 0
    /\ last_pop_call_index = None
    /\ call_stack = <<>>
    /\ gas_event_call_stack = <<>>
    /\ active_gas_left_at_failure = None
    /\ log_in_block_index = 0
    /\ log_count = 0
    /\ op = "block_context"
    /\ out = <<>>
    /\ call_events = <<>>
    /\ panicked = FALSE
    /\ started = FALSE
    /\ scope = "block"
    /\ gas_event_befores = <<>>
    /\ tracer_offset = 0
    /\ tracer_logs = <<>>
    /\ first_line = ""
    /\ init_lines = 0
    /\ block_log_indices = <<>>
    /\ log_protocol = "reported"
    /\ gas_used_emitted = 0
    /\ receipts_in_order = TRUE

\* the number a decimal token stands for
ParseDec(token) == CHOOSE n \in 0..(U64Modulus - 1) : Dec(n) = token

RECURSIVE SumGasUsed(_)
\* sum of the gas_used fields of END_APPLY_TRX lines
SumGasUsed(lines) ==
    IF lines = <<>> THEN 0 ELSE ParseDec(Head(lines)[2]) + SumGasUsed(Tail(lines))

\* the host's position after the step
ObserveHost ==
    /\ started' = TRUE
    /\ scope' = IF op' = "block_context" THEN "block"
                ELSE IF op' = "transaction_tracer" THEN "transaction"
                ELSE scope

\* what the step adds to the transcript of the Context's sink
ObserveSink ==
    /\ first_line' = IF first_line = "" /\ out' # <<>> THEN out'[1][1] ELSE first_line
    /\ init_lines' = init_lines + Len(LinesOf("INIT", out'))

\* what the step adds to the record_log calls of the tracer and to the ADD_LOG
\* lines of the block, and
\* whether the host still reports every tracer's get_log_count() once, by
\* record_log_count, before it creates the next tracer; `reported` is the
\* argument of the step's record_log_count, None in any other step
ObserveLogs(reported) ==
    /\ log_protocol' =
          IF op' = "block_context" THEN "reported"
          ELSE IF op' = "transaction_tracer"
          THEN IF log_protocol = "reported" THEN "pending" ELSE "broken"
          ELSE IF op' = "record_log_count"
          THEN IF log_protocol = "pending" /\ reported = Some(get_log_count)
               THEN "reported" ELSE "broken"
          ELSE IF op' = "record_log" /\ log_protocol = "reported" THEN "broken"
          ELSE log_protocol
    /\ tracer_offset' =
          IF op' = "transaction_tracer" THEN log_index_at_block ELSE tracer_offset
    /\ tracer_logs' =
          IF op' = "transaction_tracer" THEN <<>>
          ELSE IF op' = "record_log"
          THEN Append(tracer_logs,
                      [stack |-> call_stack, lines |-> LinesOf("ADD_LOG", out')])
          ELSE tracer_logs
    /\ block_log_indices' =
          IF op' = "block_context" THEN <<>>
          ELSE block_log_indices
               \o [i \in 1..Len(LinesOf("ADD_LOG", out')) |->
                      LinesOf("ADD_LOG", out')[i][3]]

\* what the step adds to the gas the block's END_APPLY_TRX lines account for,
\* and whether the block's receipts still came in order
ObserveGasUsed ==
    /\ receipts_in_order' =
          IF op' = "block_context" THEN TRUE
          ELSE IF op' = "set_cumulative_gas_used" THEN FALSE
          ELSE IF op' = "end_transaction"
          THEN receipts_in_order /\ ~panicked'
               /\ cumulative_gas_used' >= cumulative_gas_used
          ELSE receipts_in_order
    /\ gas_used_emitted' =
          IF op' = "block_context" THEN 0
          ELSE gas_used_emitted + SumGasUsed(LinesOf("END_APPLY_TRX", out'))

\* the host's start: Context::init is called once, before any other operation
Handshake == ~started

\* the host after its start
Running == started

\* the host has a transaction tracer of the current block
InTransaction == started /\ scope = "transaction"

\* a step of the host followed for the log indices of its blocks
ObserveBlockLogs(reported) ==
    /\ ObserveHost
    /\ ObserveSink
    /\ ObserveLogs(reported)
    /\ UNCHANGED <<gas_event_befores, receipts_in_order, gas_used_emitted>>

ObserveBlock == ObserveBlockLogs(None)

\* the operations of Context and BlockContext
BlockOps ==
    \/ \E engine \in Engines : Handshake /\ init(engine) /\ ObserveBlock
    \/ Running /\ block_context /\ ObserveBlock
    \/ Running /\ start_block(5) /\ ObserveBlock
    \/ Running /\ transaction_tracer /\ ObserveBlock
    \/ \E trx \in Transactions : Running /\ start_transaction(trx) /\ ObserveBlock
    \/ \E count \in 0..MaxLogs :
          /\ Running
          /\ log_index_at_block + count <= MaxBlockLogs
          /\ record_log_count(count) /\ ObserveBlockLogs(Some(count))
    \/ \E receipt \in {r \in Receipts : r.cumulative_gas_used = MaxGasUsed} :
          /\ Running
          /\ cumulative_gas_used < MaxGasUsed
          /\ end_transaction(receipt) /\ ObserveBlock
    \/ Running /\ finalize_block(5) /\ ObserveBlock
    \/ \E header \in Headers : Running /\ end_block(5, 1, header, <<header>>) /\ ObserveBlock
    \/ Running /\ BlockTracer_record_balance_change(1, 0, 100, "RewardMineBlock")
               /\ ObserveBlock

\* the operations of the transaction tracer the host has
TransactionOps ==
    \/ \E call \in {c \in Calls : c.call_type = "Call"} :
          /\ InTransaction
          /\ call_index < MaxBlockCalls
          /\ start_call(call) /\ ObserveBlock
    \/ InTransaction /\ end_call(0, None) /\ ObserveBlock
    \/ \E log \in Logs :
          /\ InTransaction
          /\ log_count < MaxLogs
          /\ Len(block_log_indices) < MaxBlockLogs
          /\ record_log(log) /\ ObserveBlock

BlockNext == BlockOps \/ TransactionOps

\* the blocks and transactions of a Context of any instrumentation level,
\* driven by the host
BlockSpec == BlockInit /\ [][BlockNext]_vars

\* a step of the host followed for the gas its receipts account for
ObserveAccounting ==
    /\ ObserveHost
    /\ ObserveSink
    /\ ObserveGasUsed
    /\ UNCHANGED <<gas_event_befores, tracer_offset, tracer_logs, block_log_indices,
                   log_protocol>>

\* the operations on the accounting of a BlockContext
AccountingNext ==
    \/ \E engine \in Engines : Handshake /\ init(engine) /\ ObserveAccounting
    \/ Running /\ block_context /\ ObserveAccounting
    \/ \E gas_used \in 0..MaxGasUsed :
          Running /\ set_cumulative_gas_used(gas_used) /\ ObserveAccounting
    \/ \E receipt \in Receipts :
          /\ Running
          /\ gas_used_emitted <= MaxGasUsed
          /\ end_transaction(receipt) /\ ObserveAccounting
    \/ Running /\ finalize_block(5) /\ ObserveAccounting

\* the flags and the gas accounting of the BlockContexts of a Context of any
\* instrumentation level
AccountingSpec == BlockInit /\ [][AccountingNext]_vars

----------------------------------------------------------------------------
(* Properties of the call stack. *)

\* positions of the lines with keyword kw in call_events
EventPositions(kw) == {i \in 1..Len(call_events) : call_events[i][1] = kw}

\* the EVM_RUN_CALL lines before position i whose index no EVM_END_CALL line
\* before position i carries: the calls started and not yet closed
OpenBefore(i) ==
    {j \in 1..(i - 1) :
        /\ call_events[j][1] = "EVM_RUN_CALL"
        /\ \A k \in (j + 1)..(i - 1) :
              call_events[k] # <<"EVM_END_CALL", call_events[j][2]>>}

SetMax(S) == CHOOSE x \in S : \A y \in S : y <= x

\* C1: every EVM_END_CALL line of a tracer carries the index of the most
\* recently started call that is not yet closed, and the EVM_RUN_CALL lines
\* number the calls 1, 2, ... in the order they start (pre-order), so the
\* EVM_END_CALL lines are the post-order of the call tree.
C1_EndCallClosesInnermostOpenCall ==
    /\ \A i \in EventPositions("EVM_END_CALL") :
          /\ OpenBefore(i) # {}
          /\ call_events[i][2] = call_events[SetMax(OpenBefore(i))][2]
    /\ \A i \in EventPositions("EVM_RUN_CALL") :
          call_events[i][2] = Dec(Cardinality({j \in EventPositions("EVM_RUN_CALL") : j <= i}))

\* a parent with two children, all closed, the parent by end_failed_call
C1_Witness ==
    /\ op = "end_failed_call"
    /\ call_events = << <<"EVM_RUN_CALL", "1">>, <<"EVM_RUN_CALL", "2">>,
                        <<"EVM_END_CALL", "2">>, <<"EVM_RUN_CALL", "3">>,
                        <<"EVM_END_CALL", "3">>, <<"EVM_END_CALL", "1">> >>

\* C2: the k-th start_call of a tracer prints EVM_RUN_CALL and then EVM_PARAM,
\* both with call index k; a tracer's EVM_RUN_CALL indices are 1, 2, 3, ... with
\* no index reused after an end_call, and start at 1 again for each new tracer.
C2_StartCallNumbersCallsFromOne ==
    /\ \A i \in 1..Cardinality(EventPositions("EVM_RUN_CALL")) :
          \E j \in EventPositions("EVM_RUN_CALL") :
             /\ call_events[j][2] = Dec(i)
             /\ Cardinality({k \in EventPositions("EVM_RUN_CALL") : k <= j}) = i
    /\ op = "start_call" =>
          /\ Len(out) = 2
          /\ out[1][1] = "EVM_RUN_CALL"
          /\ out[1][3] = Dec(Cardinality(EventPositions("EVM_RUN_CALL")))
          /\ out[2][1] = "EVM_PARAM"
          /\ out[2][3] = Dec(Cardinality(EventPositions("EVM_RUN_CALL")))

\* the second call of a tracer starts after the first one has ended
C2_Witness ==
    /\ op = "start_call"
    /\ call_events = << <<"EVM_RUN_CALL", "1">>, <<"EVM_END_CALL", "1">>,
                        <<"EVM_RUN_CALL", "2">> >>

\* C3: active_call_index() is 0 exactly when the call stack is empty, which is
\* exactly when every call started on the tracer has been closed; otherwise it
\* is the top of the call stack, and it is never the index of a closed call.
C3_ActiveCallIndexIsStackTopOrZero ==
    /\ (active_call_index = 0) <=> (call_stack = <<>>)
    /\ (call_stack = <<>>) <=>
          (Cardinality(EventPositions("EVM_RUN_CALL"))
              = Cardinality(EventPositions("EVM_END_CALL")))
    /\ call_stack # <<>> => active_call_index = call_stack[Len(call_stack)]
    /\ \A i \in EventPositions("EVM_END_CALL") :
          call_events[i][2] # Dec(active_call_index)

\* the parent is active again after its child was closed
C3_Witness ==
    /\ call_stack = <<1>>
    /\ last_pop_call_index = Some(2)
    /\ active_call_index = 1

----------------------------------------------------------------------------
(* Properties of the failure protocol and of the fatal defects. *)

\* C4: a failed_call issued while a failure is pending terminates fatally,
\* prints no line and leaves the stored gas value as it was.
C4_SecondFailedCallIsFatal ==
    [][(op' = "failed_call" /\ IsSome(active_gas_left_at_failure)) =>
          /\ panicked'
          /\ out' = <<>>
          /\ active_gas_left_at_failure' = active_gas_left_at_failure]_vars

\* a failed_call has panicked on the failure stored by the one before it
C4_Witness ==
    /\ panicked
    /\ op = "failed_call"
    /\ active_gas_left_at_failure = Some(1)

\* C5: end_failed_call issued while no failure is pending terminates fatally:
\* it prints no line and does not pop the call stack, whatever its depth.
C5_EndFailedCallWithoutFailureIsFatal ==
    [][(op' = "end_failed_call" /\ ~IsSome(active_gas_left_at_failure)) =>
          /\ panicked'
          /\ out' = <<>>
          /\ call_events' = call_events
          /\ call_stack' = call_stack]_vars

\* end_failed_call has panicked inside an open call, with nothing printed
C5_Witness ==
    /\ panicked
    /\ op = "end_failed_call"
    /\ out = <<>>
    /\ Len(call_stack) = 2

\* C6: end_call on an empty call stack and record_after_call_gas_event on an
\* empty gas-event stack terminate fatally, print no line and record no
\* last-popped index.
C6_PopOfEmptyStackIsFatal ==
    [][(\/ op' = "end_call" /\ call_stack = <<>>
        \/ op' = "record_after_call_gas_event" /\ gas_event_call_stack = <<>>) =>
          /\ panicked'
          /\ out' = <<>>
          /\ last_pop_call_index' = last_pop_call_index
          /\ call_stack' = call_stack
          /\ gas_event_call_stack' = gas_event_call_stack]_vars

\* end_call has panicked after every started call was closed
C6_Witness ==
    /\ panicked
    /\ op = "end_call"
    /\ call_index = 2
    /\ call_stack = <<>>

\* C7: an operation that hits a contract violation has printed no line.
C7_FatalOperationPrintsNothing == panicked => out = <<>>

C9_RevertedCallOnlyPrints ==
    [][/\ op' = "reverted_call" =>
             /\ \E gas_left \in Gas :
                   out' = << <<"EVM_CALL_FAILED", Dec(active_call_index),
                               Dec(gas_left), "Reverted">>,
                             <<"EVM_REVERTED", Dec(active_call_index)>> >>
             /\ UNCHANGED tracer_vars
             /\ ~panicked'
       /\ (op = "reverted_call" /\ op' = "end_call" /\ call_stack # <<>>) =>
             /\ out'[1][2] = out[2][2]
             /\ call_stack' = SubSeq(call_stack, 1, Len(call_stack) - 1)
       /\ (op = "reverted_call" /\ op' = "end_failed_call"
           /\ ~IsSome(active_gas_left_at_failure)) => panicked']_vars

\* a call nested in another has reverted with gas left
C9_Witness ==
    /\ op = "reverted_call"
    /\ call_stack = <<1, 2>>
    /\ out = << <<"EVM_CALL_FAILED", "2", "1", "Reverted">>, <<"EVM_REVERTED", "2">> >>
    /\ ~IsSome(active_gas_left_at_failure)

\* the operations that set or consume the pending failure
FailureOps == {"transaction_tracer", "failed_call", "end_failed_call"}

\* C10: at most one failure is pending; failed_call without a pending failure
\* prints EVM_CALL_FAILED <active idx> <gas> <reason>, stores that gas value and
\* does not pop the call stack; end_failed_call and a new tracer leave no failure
\* pending; no other operation changes the pending failure.
C10_PendingFailureSetAndConsumeProtocol ==
    [][/\ Len(active_gas_left_at_failure') <= 1
       /\ (op' = "failed_call" /\ ~IsSome(active_gas_left_at_failure)) =>
             \E i \in FailedCallInputs :
                /\ out' = << <<"EVM_CALL_FAILED", Dec(active_call_index), Dec(i[1]), i[2]>> >>
                /\ active_gas_left_at_failure' = Some(i[1])
                /\ call_stack' = call_stack
                /\ ~panicked'
       /\ (op' = "failed_call" /\ IsSome(active_gas_left_at_failure)) =>
             active_gas_left_at_failure' = active_gas_left_at_failure
       /\ op' \in {"transaction_tracer", "end_failed_call"} =>
             ~IsSome(active_gas_left_at_failure')
       /\ op' \notin FailureOps =>
             active_gas_left_at_failure' = active_gas_left_at_failure]_vars

\* a call was closed by end_call while the failure recorded in it is pending
C10_Witness ==
    /\ op = "end_call"
    /\ active_gas_left_at_failure = Some(1)
    /\ last_pop_call_index = Some(1)

----------------------------------------------------------------------------
(* Properties of the gas events. *)

\* the active call index under the call stack `stack`
TopOrZero(stack) == IF stack = <<>> THEN 0 ELSE stack[Len(stack)]

\* the before_call line that waits at the top of the gas-event transcript
LastBefore == gas_event_befores[Len(gas_event_befores)]

\* C11 as stated: with an active call idx, record_before_call_gas_event(amount)
\* prints GAS_EVENT idx idx+1 before_call amount and pushes idx + 1 onto the
\* gas-event stack.
C11_BeforeCallLinksActiveIndexPlusOne ==
    (op = "record_before_call_gas_event" /\ call_stack # <<>>) =>
       /\ gas_event_call_stack # <<>>
       /\ PopValue(gas_event_call_stack) = TopOrZero(LastBefore.stack) + 1
       /\ \E amount \in Gas :
             out = << <<"GAS_EVENT", Dec(TopOrZero(LastBefore.stack)),
                        Dec(TopOrZero(LastBefore.stack) + 1), "before_call",
                        Dec(amount)>> >>

\* C11 amended: with an active call idx, record_before_call_gas_event(amount)
\* prints GAS_EVENT idx k+1 before_call amount, k the number of calls the
\* tracer has started so far, and pushes k + 1 onto the gas-event stack.
C11_BeforeCallLinksNextCallIndex ==
    (op = "record_before_call_gas_event" /\ call_stack # <<>>) =>
       /\ Len(gas_event_call_stack) = Len(gas_event_befores)
       /\ gas_event_call_stack # <<>>
       /\ PopValue(gas_event_call_stack) = LastBefore.started + 1
       /\ LastBefore.stack = call_stack
       /\ \E amount \in Gas :
             out = << <<"GAS_EVENT", Dec(TopOrZero(LastBefore.stack)),
                        Dec(LastBefore.started + 1), "before_call", Dec(amount)>> >>

\* the gas event before a second child of call 1, the first child being closed
C11_Witness ==
    /\ op = "record_before_call_gas_event"
    /\ call_stack = <<1>>
    /\ call_index = 2
    /\ gas_event_call_stack = <<3>>
    /\ out = << <<"GAS_EVENT", "1", "3", "before_call", "1">> >>

\* C12: the linked index of a before_call GAS_EVENT line is the index of the
\* call started next: when no call was started between that line and a
\* start_call, the EVM_RUN_CALL line of the start_call carries the linked index,
\* however many sibling calls were opened and closed before.
C12_LinkedIndexIsNextStartedCall ==
    op = "start_call" =>
       \A i \in 1..Len(gas_event_befores) :
          gas_event_befores[i].started = CallsStarted - 1 =>
             /\ Len(out) >= 1
             /\ out[1][1] = "EVM_RUN_CALL"
             /\ out[1][3] = gas_event_befores[i].line[3]

\* the second child of call 1 starts after its gas event; the first is closed
C12_Witness ==
    /\ op = "start_call"
    /\ call_events = << <<"EVM_RUN_CALL", "1">>, <<"EVM_RUN_CALL", "2">>,
                        <<"EVM_END_CALL", "2">>, <<"EVM_RUN_CALL", "3">> >>
    /\ Len(gas_event_befores) = 1
    /\ LastBefore.line = <<"GAS_EVENT", "1", "3", "before_call", "1">>
    /\ LastBefore.started = 2

\* C13: record_after_call_gas_event on a non-empty gas-event stack prints
\* GAS_EVENT <active idx> <linked idx> after_call <amount> with the linked index
\* of the latest before_call line not yet answered, and removes it; when the
\* call stack is the one the before_call line was printed under (the calls
\* started since have ended), both lines carry the same active call index.
C13_AfterCallAnswersLatestBeforeCall ==
    [][(op' = "record_after_call_gas_event" /\ gas_event_call_stack # <<>>) =>
          /\ gas_event_befores # <<>>
          /\ ~panicked'
          /\ \E amount \in Gas :
                out' = << <<"GAS_EVENT", Dec(TopOrZero(call_stack)),
                            LastBefore.line[3], "after_call", Dec(amount)>> >>
          /\ gas_event_call_stack' = SubSeq(gas_event_call_stack, 1,
                                            Len(gas_event_call_stack) - 1)
          /\ Len(gas_event_call_stack') = Len(gas_event_befores')
          /\ call_stack = LastBefore.stack => out'[1][2] = LastBefore.line[2]]_vars

\* two gas events wait, printed before call 1 and before its child 2; the child
\* has ended and the later of the two is answered first, under call 1 again
C13_Witness ==
    /\ op = "record_after_call_gas_event"
    /\ ~panicked
    /\ out = << <<"GAS_EVENT", "1", "2", "after_call", "0">> >>
    /\ call_stack = <<1>>
    /\ last_pop_call_index = Some(2)
    /\ gas_event_call_stack = <<1>>

----------------------------------------------------------------------------
(* Properties of the suppressed records and of the sentinel reasons. *)

\* the step prints no line, does not fail and assigns no field of the tracer
Silent == out' = <<>> /\ ~panicked' /\ UNCHANGED tracer_vars

\* C17: record_balance_change with reason Ignored, record_gas_consume with
\* reason Ignored and record_gas_consume / record_gas_refund with a zero delta
\* print no line, do not fail and change no field of the tracer; with a
\* non-zero delta and a reason other than Ignored exactly the line GAS_CHANGE
\* idx old old-consumed reason, or GAS_CHANGE idx old old+refund
\* refund_after_execution, is printed.
C17_SuppressedRecordsAreSilent ==
    [][/\ \A i \in BalanceInputs :
             (i[4] = "Ignored" /\ record_balance_change(i[1], i[2], i[3], i[4]))
                => Silent
       /\ \A i \in GasConsumeInputs :
             ((i[3] = "Ignored" \/ i[2] = 0) /\ record_gas_consume(i[1], i[2], i[3]))
                => Silent
       /\ \A gas_refund \in Gas :
             (gas_refund = 0 /\ record_gas_refund(1, gas_refund)) => Silent
       /\ \A i \in GasConsumeInputs :
             (i[3] # "Ignored" /\ i[2] # 0 /\ record_gas_consume(i[1], i[2], i[3]))
                => /\ ~panicked'
                   /\ out' = << <<"GAS_CHANGE", Dec(active_call_index), Dec(i[1]),
                                  Dec(i[1] - i[2]), GasReasonToken(i[3])>> >>
       /\ \A gas_refund \in Gas :
             (gas_refund # 0 /\ record_gas_refund(1, gas_refund))
                => /\ ~panicked'
                   /\ out' = << <<"GAS_CHANGE", Dec(active_call_index), "1",
                                  Dec(1 + gas_refund), "refund_after_execution">> >>]_vars

\* the tokens Display yields for the balance-change reasons
BalanceTokens ==
    {BalanceReasonToken(reason) :
        reason \in BalanceChangeReason \ {"CallBalanceOverride", "Ignored"}}

\* the tokens Display yields for the gas-change reasons
GasTokens == {GasReasonToken(reason) : reason \in GasChangeReason \ {"Ignored"}}

\* C18: every BALANCE_CHANGE and GAS_CHANGE line ends in the token of a reason
\* that is not a sentinel, and record_balance_change with CallBalanceOverride,
\* on the transaction tracer or on the block tracer, fails fatally and prints
\* no line.
C18_NoSentinelReasonReachesTheSink ==
    [][/\ \A k \in 1..Len(out') :
             /\ out'[k][1] = "BALANCE_CHANGE" => out'[k][6] \in BalanceTokens
             /\ out'[k][1] = "GAS_CHANGE" => out'[k][5] \in GasTokens
       /\ \A i \in BalanceInputs :
             (/\ i[4] = "CallBalanceOverride"
              /\ \/ record_balance_change(i[1], i[2], i[3], i[4])
                 \/ BlockTracer_record_balance_change(i[1], i[2], i[3], i[4]))
                => panicked' /\ out' = <<>> /\ UNCHANGED tracer_vars]_vars

\* the block tracer has failed on CallBalanceOverride, nothing printed
C18_Witness ==
    /\ panicked
    /\ op = "BlockTracer_record_balance_change"
    /\ out = <<>>

----------------------------------------------------------------------------
(* Properties of the log counters. *)

C15_LogIndicesAreBlockScoped ==
    log_protocol # "broken" =>
        block_log_indices = [i \in 1..Len(block_log_indices) |-> Dec(i - 1)]

\* the second transaction of a block prints the block's second ADD_LOG line,
\* after a first transaction with one log
C15_Witness ==
    /\ log_protocol = "pending"
    /\ op = "record_log"
    /\ tracer_offset = 1
    /\ block_log_indices = <<"0", "1">>

----------------------------------------------------------------------------
(* Properties of the block's gas accounting. *)

\* C16: end_transaction(receipt) emits END_APPLY_TRX whose first field is
\* receipt.cumulative_gas_used minus the block's cumulative gas before the
\* call and whose third field is receipt.cumulative_gas_used, then sets the
\* block's cumulative gas to the receipt's value; in a fresh BlockContext with
\* receipts of non-decreasing cumulative gas the emitted deltas add up to the
\* last receipt's cumulative gas
C16_EndTransactionEmitsGasDelta ==
    /\ [][\A receipt \in Receipts :
            (printer = "IoPrinter" /\ end_transaction(receipt)) =>
                /\ ~panicked'
                /\ Len(out') = 1
                /\ out'[1][1] = "END_APPLY_TRX"
                /\ ParseDec(out'[1][2]) =
                      receipt.cumulative_gas_used - cumulative_gas_used
                /\ out'[1][4] = Dec(receipt.cumulative_gas_used)
                /\ cumulative_gas_used' = receipt.cumulative_gas_used]_vars
    /\ [](printer = "IoPrinter" /\ receipts_in_order =>
             gas_used_emitted = cumulative_gas_used)

----------------------------------------------------------------------------
(* Properties of the Context. *)

\* C19: is_enabled() is true exactly at Full, is_finalize_block_enabled()
\* exactly at Full and BlockProgress, Context::noop() yields both false, the
\* level never changes after construction, and a BlockContext reports the
\* flags its Context had at block_context() for its whole lifetime
C19_EnablementFollowsTheLevel ==
    /\ [](/\ Context_is_enabled <=> instrumentation = "Full"
          /\ Context_is_finalize_block_enabled
                <=> instrumentation \in {"Full", "BlockProgress"}
          /\ Context_is_enabled => Context_is_finalize_block_enabled
          /\ printer = "DiscardPrinter" =>
                ~Context_is_enabled /\ ~Context_is_finalize_block_enabled
          /\ BlockContext_is_enabled <=> Context_is_enabled
          /\ BlockContext_is_finalize_block_enabled
                <=> Context_is_finalize_block_enabled)
    /\ [][/\ instrumentation' = instrumentation
          /\ printer' = printer
          /\ op' # "block_context" =>
                /\ BlockContext_is_enabled' = BlockContext_is_enabled
                /\ BlockContext_is_finalize_block_enabled'
                      = BlockContext_is_finalize_block_enabled]_vars

\* the second BlockContext of a BlockProgress Context, made after a
\* transaction with a log, finalizes its block
C19_Witness ==
    /\ instrumentation = "BlockProgress"
    /\ ~BlockContext_is_enabled
    /\ BlockContext_is_finalize_block_enabled
    /\ scope = "block"
    /\ tracer_logs # <<>>
    /\ op = "finalize_block"

----------------------------------------------------------------------------
(* Properties of the formatters. *)

\* C21: in every space-delimited field a zero address, a zero hash, a zero
\* big integer and an empty byte string render as the single token ".", never
\* as a literal zero value (here: the fields of STORAGE_CHANGE, EVM_KECCAK,
\* CODE_CHANGE, CREATED_ACCOUNT and BALANCE_CHANGE)
C21_ZeroValuesRenderAsDot ==
    [][/\ \A new_data \in Hashes :
             record_storage_change(1, 1, 0, new_data) =>
                /\ out'[1][5] = "."
                /\ out'[1][6] = "." <=> new_data = 0
       /\ \A data \in ByteStrings :
             record_keccak(1, data) => (out'[1][4] = "." <=> data = <<>>)
       /\ record_code_change(1, 0, 1, <<>>, <<171>>) =>
             /\ out'[1][4] = "."
             /\ out'[1][5] = "."
       /\ \A address \in Addresses :
             record_new_account(address) => (out'[1][3] = "." <=> address = 0)
       /\ \A i \in BalanceInputs :
             (record_balance_change(i[1], i[2], i[3], i[4]) /\ out' # <<>>) =>
                (out'[1][4] = "." <=> i[2] = 0)]_vars

----------------------------------------------------------------------------
(* Properties of the BlockTracer. *)

\* what a step leaves alone when it assigns no field of any object
NoStateChange == UNCHANGED <<tracer_vars, context_vars, block_vars>>

----------------------------------------------------------------------------
(* Frame properties of the TransactionTracer. *)

\* the change-recording operations of a TransactionTracer
ChangeRecordingOps ==
    {"record_balance_change", "record_nonce_change", "record_storage_change",
     "record_code_change", "record_new_account", "record_suicide", "record_keccak",
     "record_call_without_code", "record_gas_consume", "record_gas_refund",
     "record_log"}

\* C23: every change-recording operation of a TransactionTracer tags its
\* line with the active call index at the moment of the call (0 when no call
\* is open) and leaves the call stack, the call counter, the gas-event stack
\* and the pending failure unchanged; only record_log changes state, and only
\* the two log counters
C23_ChangeRecordsTagTheActiveCallAndKeepTheStacks ==
    [][op' \in ChangeRecordingOps =>
          /\ \A i \in 1..Len(out') : out'[i][2] = Dec(TopOrZero(call_stack))
          /\ UNCHANGED <<call_stack, call_index, last_pop_call_index,
                         gas_event_call_stack, active_gas_left_at_failure,
                         context_vars, block_vars>>
          /\ IF op' = "record_log"
             THEN /\ log_count' = log_count + 1
                  /\ log_in_block_index' = log_in_block_index + 1
             ELSE UNCHANGED <<log_count, log_in_block_index>>]_vars

\* a storage change recorded in the parent after its child has ended: the
\* active call is 1 and the call counter is 2
C23_Witness ==
    /\ op = "record_storage_change"
    /\ call_stack = <<1>>
    /\ call_index = 2
    /\ out[1][2] = "1"

\* C24: start_call, end_call, end_failed_call, failed_call and reverted_call
\* never push to or pop from the gas-event stack, and
\* record_before_call_gas_event / record_after_call_gas_event never change the
\* call stack, the call counter or the active call index
C24_CallStackAndGasEventStackAreIndependent ==
    [][/\ op' \in {"start_call", "end_call", "end_failed_call", "failed_call",
                   "reverted_call"} =>
             gas_event_call_stack' = gas_event_call_stack
       /\ op' \in {"record_before_call_gas_event", "record_after_call_gas_event"} =>
             /\ call_stack' = call_stack
             /\ call_index' = call_index
             /\ active_call_index' = active_call_index]_vars

\* a gas event announced inside call 1 is answered while call 1 is still
\* open, after the announced call 2 has started and ended
C24_Witness ==
    /\ op = "record_after_call_gas_event"
    /\ call_stack = <<1>>
    /\ last_pop_call_index = Some(2)
    /\ gas_event_call_stack = <<>>
    /\ out = << <<"GAS_EVENT", "1", "2", "after_call", "0">> >>

----------------------------------------------------------------------------
(* Properties of the call stack and the call lines. *)

\* the call indices the EVM_END_CALL lines carry
EndedCalls == {call_events[i][2] : i \in EventPositions("EVM_END_CALL")}

\* C26: the number of EVM_RUN_CALL lines minus the number of EVM_END_CALL
\* lines is the depth of the call stack, no call index is in more than one
\* EVM_END_CALL line, and whenever the call stack is empty every started call
\* has been closed exactly once
C26_RunCallsMinusEndCallsIsTheDepth ==
    /\ Cardinality(EventPositions("EVM_RUN_CALL"))
          - Cardinality(EventPositions("EVM_END_CALL")) = Len(call_stack)
    /\ Cardinality(EndedCalls) = Cardinality(EventPositions("EVM_END_CALL"))
    /\ call_stack = <<>> =>
          \A i \in EventPositions("EVM_RUN_CALL") :
             Cardinality({j \in EventPositions("EVM_END_CALL") :
                             call_events[j][2] = call_events[i][2]}) = 1

\* three calls started and closed, two of them nested in the first
C26_Witness ==
    /\ call_stack = <<>>
    /\ Cardinality(EventPositions("EVM_RUN_CALL")) = 3
    /\ EndedCalls = {"1", "2", "3"}
    /\ call_events[2] = <<"EVM_RUN_CALL", "2">>
    /\ call_events[Len(call_events)] = <<"EVM_END_CALL", "1">>

\* C27: the call stack is strictly increasing from bottom to top, every entry
\* is between 1 and the call counter, and the counter is the number of
\* start_call operations performed; so a child's index is greater than its
\* parent's and the last-popped index is never greater than the counter
C27_CallStackIsStrictlyIncreasing ==
    /\ \A i \in 1..Len(call_stack) :
          /\ call_stack[i] \in 1..call_index
          /\ \A j \in (i + 1)..Len(call_stack) : call_stack[i] < call_stack[j]
    /\ call_index = Cardinality(EventPositions("EVM_RUN_CALL"))
    /\ IsSome(last_pop_call_index) => Unwrap(last_pop_call_index) \in 1..call_index

\* call 3 is open inside call 1 after call 2 has ended
C27_Witness ==
    /\ call_stack = <<1, 3>>
    /\ call_index = 3
    /\ last_pop_call_index = Some(2)

----------------------------------------------------------------------------
(* Properties of the unsigned 64-bit arithmetic. *)

\* C28: the u64 subtractions never underflow or wrap: every
\* record_gas_consume(old, consumed, reason) that emits a line emits the new
\* gas value old - consumed, which lies in 0..old, and every end_transaction
\* emits the delta receipt.cumulative_gas_used - block.cumulative_gas_used,
\* which is not negative, for all arguments the hooks accept
C28_SubtractionsNeverUnderflow ==
    [][/\ \A i \in GasConsumeInputs :
             record_gas_consume(i[1], i[2], i[3]) =>
                /\ ~panicked'
                /\ \A k \in 1..Len(out') :
                      /\ ParseDec(out'[k][4]) = i[1] - i[2]
                      /\ ParseDec(out'[k][4]) \in 0..i[1]
       /\ \A receipt \in Receipts :
             end_transaction(receipt) =>
                /\ ~panicked'
                /\ \A k \in 1..Len(out') :
                      /\ ParseDec(out'[k][2])
                            = receipt.cumulative_gas_used - cumulative_gas_used
                      /\ ParseDec(out'[k][2]) >= 0]_vars

----------------------------------------------------------------------------
(* Properties of the calls made from ActionParams. *)

\* C25: the value field of EVM_PARAM is the hex of the call's value only when
\* the action value is a non-zero Transfer; for an Apparent value of any
\* amount and for a zero Transfer it is "."; the input field is "." when the
\* call has no data or empty data
C25_EvmParamValueIsTheTransferredValue ==
    [][\A params \in ActionParamsInputs :
          start_call(to_deepmind_call(params)) =>
             /\ out'[2][1] = "EVM_PARAM"
             /\ out'[2][6] = IF params.value.kind = "Transfer" /\ params.value.amount # 0
                             THEN ToHex(params.value.amount) ELSE "."
             /\ out'[2][8] = IF params.data \in {None, Some(<<>>)}
                             THEN "." ELSE BytesToHex(Unwrap(params.data))]_vars

\* the second call of a tracer transfers 100 and has no input: value 64,
\* gas limit 21000, input "."
C25_Witness ==
    /\ op = "start_call"
    /\ out = << <<"EVM_RUN_CALL", "CALL", "2">>,
                <<"EVM_PARAM", "CALL", "2", Address(1), Address(1), "64", "21000",
                  ".">> >>

====
